---- MODULE Spec2Model ----
(***************************************************************************)
(* Metadata-driven survey pipeline (pipeline.py): schema -> column types   *)
(* and value labels, responses -> typed table, table -> .sav export.       *)
(*                                                                         *)
(* Python values are records tagged by t, the payload under its own name:  *)
(*   null  None / JSON null          num   an int (n)                      *)
(*   str   a string (s), a sequence of one-character strings               *)
(*   list  a list (items)            obj   a dict (d), a TLA+ record       *)
(* Insertion-ordered dicts built by the code (column_dtypes, value labels, *)
(* response records) are sequences of <<key, value>> pairs.                *)
(***************************************************************************)
EXTENDS Integers, Sequences, FiniteSets, TLC

VARIABLES
    arg,               \* the argument of the function under call
    ret,               \* its outcome: a returned value or a raised error
    pc,                \* position in the call / in main()
    schemaFile,        \* responses_schema.json: NoFile or its parsed content
    dataFile,          \* responses_data.json: NoFile or its parsed content
    schema_names,      \* main(): names returned by extract_schema_info
    fields,            \* main(): field list returned by extract_schema_info
    column_dtypes,     \* main(): {column: dtype} for non-datetime columns
    datetime_columns,  \* main(): datetime column names
    value_labels,      \* main(): {column: {code: label}}
    df,                \* main(): the DataFrame
    error,             \* main(): the exception that ended the run, or NoError
    output,            \* what write_sav was given: <<df, value_labels>> per write
    steps              \* main(): the steps completed so far, in order

vars == <<arg, ret, pc, schemaFile, dataFile, schema_names, fields,
          column_dtypes, datetime_columns, value_labels, df, error, output, steps>>

-----------------------------------------------------------------------------
(* Python values *)

JNull == [t |-> "null"]
JNum(n) == [t |-> "num", n |-> n]
JStr(s) == [t |-> "str", s |-> s]
JList(s) == [t |-> "list", items |-> s]
JObj(r) == [t |-> "obj", d |-> r]

NoFile == [t |-> "nofile"]
NoError == "none"

Ok(v) == [ok |-> TRUE, val |-> v]
Raise(e) == [ok |-> FALSE, err |-> e]

\* bool(x): None, 0, "", [] and {} are falsy.
Truthy(x) ==
    CASE x.t = "null" -> FALSE
      [] x.t = "num" -> x.n # 0
      [] x.t = "str" -> Len(x.s) > 0
      [] x.t = "list" -> Len(x.items) > 0
      [] x.t = "obj" -> DOMAIN x.d # {}
      [] OTHER -> TRUE

\* a or b
PyOr(a, b) == IF Truthy(a) THEN a ELSE b

\* o.get(k, d) on a dict o
Get(o, k, dflt) == IF k \in DOMAIN o.d THEN o.d[k] ELSE dflt

\* lists and dicts cannot be dict keys
Hashable(x) == x.t \notin {"list", "obj"}

\* An insertion-ordered dict as a sequence of <<key, value>>: d[k] = v keeps the
\* position of an existing key and appends a new one.
DictHas(d, k) == \E i \in DOMAIN d : d[i][1] = k
DictGet(d, k) == d[CHOOSE i \in DOMAIN d : d[i][1] = k][2]
DictSet(d, k, v) ==
    IF DictHas(d, k)
    THEN [i \in DOMAIN d |-> IF d[i][1] = k THEN <<k, v>> ELSE d[i]]
    ELSE Append(d, <<k, v>>)
DictKeys(d) == {d[i][1] : i \in DOMAIN d}

UpperAlpha == <<"A","B","C","D","E","F","G","H","I","J","K","L","M",
                "N","O","P","Q","R","S","T","U","V","W","X","Y","Z">>
LowerAlpha == <<"a","b","c","d","e","f","g","h","i","j","k","l","m",
                "n","o","p","q","r","s","t","u","v","w","x","y","z">>

\* str.lower(), character by character
LowerChar(c) ==
    IF \E i \in DOMAIN UpperAlpha : UpperAlpha[i] = c
    THEN LowerAlpha[CHOOSE i \in DOMAIN UpperAlpha : UpperAlpha[i] = c]
    ELSE c
Lower(s) == [i \in DOMAIN s |-> LowerChar(s[i])]

DigitChars == <<"0","1","2","3","4","5","6","7","8","9">>

\* str(n) for an int n >= 0
RECURSIVE Digits(_)
Digits(n) == IF n < 10 THEN <<DigitChars[n + 1]>>
             ELSE Digits(n \div 10) \o <<DigitChars[(n % 10) + 1]>>

\* str(x) for None, a string, an int
PyStr(x) ==
    CASE x.t = "null" -> <<"N","o","n","e">>
      [] x.t = "str" -> x.s
      [] x.t = "num" -> Digits(x.n)

-----------------------------------------------------------------------------
(* Schema helpers *)

s_numeric == <<"n","u","m","e","r","i","c">>
s_text == <<"t","e","x","t">>
s_singlechoice == <<"s","i","n","g","l","e","c","h","o","i","c","e">>
s_singleChoice == <<"s","i","n","g","l","e","C","h","o","i","c","e">>
s_datetime == <<"d","a","t","e","t","i","m","e">>

Int64 == "Int64"
StringDtype == "string"
Datetime64 == "datetime64[ns]"

\* map_fieldtype_to_dtype comparing without .lower()
map_fieldtype_case_sensitive(field_type) ==
    LET x == PyOr(field_type, JStr(<<>>)) IN
    IF x.t # "str" THEN Raise("AttributeError")
    ELSE IF x.s = s_numeric THEN Ok(Int64)
    ELSE IF x.s = s_datetime THEN Ok(Datetime64)
    ELSE Ok(StringDtype)

\* A fieldType that is neither None nor a string has no .lower(): AttributeError.
map_fieldtype_to_dtype(field_type) ==
    LET x == PyOr(field_type, JStr(<<>>)) IN
    IF x.t # "str" THEN Raise("AttributeError")
    ELSE LET ft == Lower(x.s) IN
         IF ft = s_numeric THEN Ok(Int64)
         ELSE IF ft \in {s_text, s_singlechoice} THEN Ok(StringDtype)
         ELSE IF ft = s_datetime THEN Ok(Datetime64)
         ELSE Ok(StringDtype)

\* for x in (v or []): a list yields its items, a number is not iterable.
IterItems(v) ==
    LET w == PyOr(v, JList(<<>>)) IN
    IF w.t = "list" THEN Ok(w.items) ELSE Raise("TypeError")

\* SchemaEntry recording a datetime name in the type map as well
SchemaEntryTypesDatetime(acc, k, ftype) ==
    LET fname == Get(k, "name", JNull)
        acc1 == [acc EXCEPT !.names = Append(@, fname)]
        r == map_fieldtype_to_dtype(ftype)
    IN  IF k.t # "obj" THEN acc
        ELSE IF ~Truthy(fname) THEN acc
        ELSE IF ~r.ok THEN [acc1 EXCEPT !.err = r.err]
        ELSE IF ~Hashable(fname) THEN [acc1 EXCEPT !.err = "TypeError"]
        ELSE IF r.val = Datetime64
        THEN [acc1 EXCEPT !.dts = Append(@, fname), !.dtypes = DictSet(@, fname, r.val)]
        ELSE [acc1 EXCEPT !.dtypes = DictSet(@, fname, r.val)]

\* One pass of a schema loop over acc = [names, dtypes, dts, err]; the entry's
\* name is appended before its type is mapped, and the type map is a dict, so
\* an unhashable name raises TypeError there.
SchemaEntry(acc, k, ftype) ==
    LET fname == Get(k, "name", JNull)
        acc1 == [acc EXCEPT !.names = Append(@, fname)]
        r == map_fieldtype_to_dtype(ftype)
    IN  IF k.t # "obj" THEN acc
        ELSE IF ~Truthy(fname) THEN acc
        ELSE IF ~r.ok THEN [acc1 EXCEPT !.err = r.err]
        ELSE IF r.val = Datetime64 THEN [acc1 EXCEPT !.dts = Append(@, fname)]
        ELSE IF ~Hashable(fname) THEN [acc1 EXCEPT !.err = "TypeError"]
        ELSE [acc1 EXCEPT !.dtypes = DictSet(@, fname, r.val)]

\* for k in schema.get("keys", []) or []: fieldType defaults to "text" when
\* missing or falsy.
RECURSIVE ScanKeys(_, _, _)
ScanKeys(entries, i, acc) ==
    IF i > Len(entries) \/ acc.err # NoError THEN acc
    ELSE LET k == entries[i]
             ftype == IF k.t = "obj"
                      THEN PyOr(Get(k, "fieldType", JStr(s_text)), JStr(s_text))
                      ELSE JNull
         IN  ScanKeys(entries, i + 1, SchemaEntry(acc, k, ftype))

\* for f in fields: fieldType defaults to "text" only when missing.
RECURSIVE ScanFields(_, _, _)
ScanFields(entries, i, acc) ==
    IF i > Len(entries) \/ acc.err # NoError THEN acc
    ELSE LET f == entries[i]
             ftype == IF f.t = "obj" THEN Get(f, "fieldType", JStr(s_text)) ELSE JNull
         IN  ScanFields(entries, i + 1, SchemaEntry(acc, f, ftype))

\* extract_schema_info on the parsed document j.  Returns
\* [names, fields, column_dtypes, datetime_columns] or raises.
extract_schema_info(j) ==
    LET data == IF j.t = "obj" THEN Get(j, "data", JObj(<<>>)) ELSE JNull
        schema == IF j.t # "obj" THEN JNull
                  ELSE IF data.t = "obj" THEN Get(data, "schema", JNull)
                  ELSE JNull
    IN  IF j.t = "obj" /\ data.t # "obj" THEN Raise("AttributeError")
        ELSE IF schema.t # "obj"
        THEN Raise("ValueError: Schema JSON must contain 'data.schema' as an object.")
        ELSE
        LET keysIt == IterItems(Get(schema, "keys", JList(<<>>)))
            acc0 == [names |-> <<>>, dtypes |-> <<>>, dts |-> <<>>, err |-> NoError]
            fieldsVal == PyOr(Get(schema, "fields", JNull), JList(<<>>))
        IN  IF ~keysIt.ok THEN Raise(keysIt.err)
            ELSE LET acc1 == ScanKeys(keysIt.val, 1, acc0) IN
                 IF acc1.err # NoError THEN Raise(acc1.err)
                 ELSE IF fieldsVal.t # "list" THEN Raise("TypeError")
                 ELSE LET acc2 == ScanFields(fieldsVal.items, 1, acc1) IN
                      IF acc2.err # NoError THEN Raise(acc2.err)
                      ELSE Ok([names |-> acc2.names,
                               fields |-> fieldsVal,
                               column_dtypes |-> acc2.dtypes,
                               datetime_columns |-> acc2.dts])

\* LabelOption taking the last entry of texts instead of the first
LabelOptionLastText(acc, opt) ==
    LET code_raw == Get(opt, "code", JNull)
        texts == PyOr(Get(opt, "texts", JNull), JList(<<>>))
        last == texts.items[Len(texts.items)]
    IN  IF opt.t # "obj" THEN [acc EXCEPT !.err = "AttributeError"]
        ELSE LET label_text == IF Truthy(texts)
                               THEN Get(last, "text", JStr(PyStr(code_raw)))
                               ELSE JStr(PyStr(code_raw))
             IN  [acc EXCEPT !.labels = DictSet(@, code_raw, label_text)]

\* One option of a singleChoice field, added to acc = [labels, err].
LabelOption(acc, opt) ==
    LET code_raw == Get(opt, "code", JNull)
        texts == PyOr(Get(opt, "texts", JNull), JList(<<>>))
        first == texts.items[1]
    IN  IF opt.t # "obj" THEN [acc EXCEPT !.err = "AttributeError"]
        ELSE IF Truthy(texts) /\ texts.t # "list" THEN [acc EXCEPT !.err = "TypeError"]
        ELSE IF Truthy(texts) /\ first.t # "obj" THEN [acc EXCEPT !.err = "AttributeError"]
        ELSE LET label_text == IF Truthy(texts)
                               THEN Get(first, "text", JStr(PyStr(code_raw)))
                               ELSE JStr(PyStr(code_raw))
             IN  IF ~Hashable(code_raw) THEN [acc EXCEPT !.err = "TypeError"]
                 ELSE [acc EXCEPT !.labels = DictSet(@, code_raw, label_text)]

RECURSIVE ScanOptions(_, _, _)
ScanOptions(options, i, acc) ==
    IF i > Len(options) \/ acc.err # NoError THEN acc
    ELSE ScanOptions(options, i + 1, LabelOption(acc, options[i]))

\* One field of build_value_labels, added to acc = [labels, err].
LabelField(acc, f) ==
    LET col_name == Get(f, "name", JNull)
        options == PyOr(Get(f, "options", JNull), JList(<<>>))
        col == ScanOptions(options.items, 1, [labels |-> <<>>, err |-> NoError])
    IN  IF f.t # "obj" THEN acc
        ELSE IF Get(f, "fieldType", JNull) # JStr(s_singleChoice) THEN acc
        ELSE IF ~Truthy(col_name) THEN acc
        ELSE IF options.t # "list" THEN [acc EXCEPT !.err = "TypeError"]
        ELSE IF col.err # NoError THEN [acc EXCEPT !.err = col.err]
        ELSE IF col.labels = <<>> THEN acc
        ELSE IF ~Hashable(col_name) THEN [acc EXCEPT !.err = "TypeError"]
        ELSE [acc EXCEPT !.labels = DictSet(@, col_name, col.labels)]

RECURSIVE ScanLabelFields(_, _, _)
ScanLabelFields(fs, i, acc) ==
    IF i > Len(fs) \/ acc.err # NoError THEN acc
    ELSE ScanLabelFields(fs, i + 1, LabelField(acc, fs[i]))

\* build_value_labels on the list value fs: {column_name: {code: label_text}}
build_value_labels(fs) ==
    LET acc == ScanLabelFields(fs.items, 1, [labels |-> <<>>, err |-> NoError])
    IN  IF acc.err # NoError THEN Raise(acc.err) ELSE Ok(acc.labels)

-----------------------------------------------------------------------------
(* Data helpers.  A response record keeps its key order: JRec holds a           *)
(* sequence of <<column, value>> pairs.  A DataFrame is a sequence of columns   *)
(* [name, dtype, cells], cells in row order.                                    *)

JRec(pairs) == [t |-> "rec", pairs |-> pairs]

NaN == [t |-> "nan"]        \* a cell no record gave a value (or gave null)
NA == [t |-> "NA"]          \* pd.NA of the nullable dtypes
NaT == [t |-> "NaT"]        \* the missing datetime
Timestamp(x) == [t |-> "ts", at |-> x]

\* the keys of the records, in order of first appearance
RECURSIVE FirstSeen(_, _, _, _)
FirstSeen(rows, i, j, acc) ==
    IF i > Len(rows) THEN acc
    ELSE IF j > Len(rows[i].pairs) THEN FirstSeen(rows, i + 1, 1, acc)
    ELSE LET k == rows[i].pairs[j][1] IN
         FirstSeen(rows, i, j + 1,
                   IF \E n \in DOMAIN acc : acc[n] = k THEN acc ELSE Append(acc, k))

RawCell(row, col) ==
    IF DictHas(row.pairs, col) /\ DictGet(row.pairs, col).t # "null"
    THEN DictGet(row.pairs, col) ELSE NaN

\* the dtype pandas infers for a column of ints, strings and missing values
InferDtype(cells) ==
    IF \A i \in DOMAIN cells : cells[i].t = "num" THEN "int64"
    ELSE IF \E i \in DOMAIN cells : cells[i].t = "str" THEN "object"
    ELSE IF \E i \in DOMAIN cells : cells[i].t = "num" THEN "float64"
    ELSE "object"

\* pd.DataFrame(data) for a list of records
DataFrame(rows) ==
    LET cols == FirstSeen(rows, 1, 1, <<>>) IN
    [c \in DOMAIN cols |->
        LET cells == [r \in DOMAIN rows |-> RawCell(rows[r], cols[c])] IN
        [name |-> cols[c], dtype |-> InferDtype(cells), cells |-> cells]]

Columns(frame) == [c \in DOMAIN frame |-> frame[c].name]
HasColumn(frame, col) == \E c \in DOMAIN frame : frame[c].name = col

\* the cast with errors coerced: what cannot be cast becomes pd.NA
AsInt64Coerce(column) ==
    [column EXCEPT !.dtype = Int64,
                   !.cells = [i \in DOMAIN column.cells |->
                                IF column.cells[i].t = "num" THEN column.cells[i] ELSE NA]]

\* astype("Int64", errors="ignore"): ints and missing values cast; a column
\* holding anything else makes the cast raise, and the column is returned as is.
AsInt64(column) ==
    IF \A i \in DOMAIN column.cells : column.cells[i].t \in {"num", "nan", "NA"}
    THEN [column EXCEPT !.dtype = Int64,
                        !.cells = [i \in DOMAIN column.cells |->
                                     IF column.cells[i].t = "num" THEN column.cells[i] ELSE NA]]
    ELSE column

\* str() of a cell: a float64 column prints its numbers with ".0"
CellStr(cell, dtype) ==
    IF cell.t = "num" /\ dtype = "float64" THEN Digits(cell.n) \o <<".", "0">>
    ELSE PyStr(cell)

\* astype("string", errors="ignore")
AsString(column) ==
    [column EXCEPT !.dtype = StringDtype,
                   !.cells = [i \in DOMAIN column.cells |->
                                IF column.cells[i].t \in {"nan", "NA"} THEN NA
                                ELSE JStr(CellStr(column.cells[i], column.dtype))]]

AsType(column, dt) ==
    IF dt = Int64 THEN AsInt64(column)
    ELSE IF dt = StringDtype THEN AsString(column)
    ELSE column

IsDigit(c) == \E i \in DOMAIN DigitChars : DigitChars[i] = c
DigitVal(c) == (CHOOSE i \in DOMAIN DigitChars : DigitChars[i] = c) - 1
RECURSIVE ParseInt(_)
ParseInt(s) == IF Len(s) = 0 THEN 0
               ELSE 10 * ParseInt(SubSeq(s, 1, Len(s) - 1)) + DigitVal(s[Len(s)])

\* pd.to_datetime(errors="coerce") of one cell.  Of the date formats only the
\* four-digit year is recognised here; an int is nanoseconds since the epoch.
ToDatetimeCell(cell) ==
    CASE cell.t = "num" -> Timestamp(<<"ns", cell.n>>)
      [] cell.t = "str" ->
            IF Len(cell.s) = 4 /\ \A i \in DOMAIN cell.s : IsDigit(cell.s[i])
            THEN Timestamp(<<"year", ParseInt(cell.s)>>) ELSE NaT
      [] OTHER -> NaT

ToDatetime(column) ==
    [column EXCEPT !.dtype = Datetime64,
                   !.cells = [i \in DOMAIN column.cells |-> ToDatetimeCell(column.cells[i])]]

\* for col, dt in column_dtypes.items(): ...
RECURSIVE ApplyDtypes(_, _, _)
ApplyDtypes(frame, dtypes, i) ==
    IF i > Len(dtypes) THEN frame
    ELSE LET col == dtypes[i][1]
             dt == dtypes[i][2]
         IN  ApplyDtypes(
                IF HasColumn(frame, col) /\ dt # Datetime64
                THEN [c \in DOMAIN frame |->
                        IF frame[c].name = col THEN AsType(frame[c], dt) ELSE frame[c]]
                ELSE frame,
                dtypes, i + 1)

\* for col in datetime_columns: ...
RECURSIVE ParseDatetimes(_, _, _)
ParseDatetimes(frame, dts, i) ==
    IF i > Len(dts) THEN frame
    ELSE ParseDatetimes(
            IF HasColumn(frame, dts[i])
            THEN [c \in DOMAIN frame |->
                    IF frame[c].name = dts[i] THEN ToDatetime(frame[c]) ELSE frame[c]]
            ELSE frame,
            dts, i + 1)

\* load_responses_to_df without the exists() check
load_responses_unchecked(file, dtypes, dts) ==
    IF file.t # "list"
    THEN Raise("ValueError: Expected responses_data.json to contain a JSON array.")
    ELSE Ok(ParseDatetimes(ApplyDtypes(DataFrame(file.items), dtypes, 1), dts, 1))

\* load_responses_to_df(path, column_dtypes, datetime_columns); file is the
\* content at the path, or NoFile.
load_responses_to_df(file, dtypes, dts) ==
    IF file = NoFile THEN Raise("FileNotFoundError")
    ELSE IF file.t # "list"
    THEN Raise("ValueError: Expected responses_data.json to contain a JSON array.")
    ELSE Ok(ParseDatetimes(ApplyDtypes(DataFrame(file.items), dtypes, 1), dts, 1))

\* the order taken from the table: [c for c in df.columns if c in schema_names]
SchemaOrderOfData(names, frame, i) ==
    LET declared(c) == \E n \in DOMAIN names : names[n] = c
    IN  SelectSeq(Columns(frame), declared)

\* the loop starting one name too late
RECURSIVE SchemaOrderOffByOne(_, _, _)
SchemaOrderOffByOne(names, frame, i) ==
    IF i + 1 > Len(names) THEN <<>>
    ELSE (IF HasColumn(frame, names[i + 1]) THEN <<names[i + 1]>> ELSE <<>>)
         \o SchemaOrderOffByOne(names, frame, i + 1)

\* [name for name in schema_names if name in df.columns]
RECURSIVE SchemaOrder(_, _, _)
SchemaOrder(names, frame, i) ==
    IF i > Len(names) THEN <<>>
    ELSE (IF HasColumn(frame, names[i]) THEN <<names[i]>> ELSE <<>>)
         \o SchemaOrder(names, frame, i + 1)

\* df[schema_order]
SelectColumns(frame, order) ==
    [n \in DOMAIN order |-> frame[CHOOSE c \in DOMAIN frame : frame[c].name = order[n]]]

-----------------------------------------------------------------------------
(* main(): one action per step; an exception ends the run at the step that     *)
(* raised it (pc = "failed").                                                   *)

NotCalled == [ok |-> FALSE, err |-> "not called"]

\* if not responses_schema_path.exists(): raise FileNotFoundError
CheckSchemaExists ==
    /\ pc = "start"
    /\ IF schemaFile = NoFile
       THEN /\ pc' = "failed"
            /\ error' = "FileNotFoundError"
            /\ steps' = steps
       ELSE /\ pc' = "extract"
            /\ error' = error
            /\ steps' = Append(steps, "schema_exists")
    /\ UNCHANGED <<arg, ret, schemaFile, dataFile, schema_names, fields, column_dtypes,
                   datetime_columns, value_labels, df, output>>

\* schema_names, fields, column_dtypes, datetime_columns = extract_schema_info(...)
ExtractSchema ==
    /\ pc = "extract"
    /\ LET r == extract_schema_info(schemaFile) IN
       IF r.ok
       THEN /\ schema_names' = r.val.names
            /\ fields' = r.val.fields
            /\ column_dtypes' = r.val.column_dtypes
            /\ datetime_columns' = r.val.datetime_columns
            /\ pc' = "labels"
            /\ error' = error
            /\ steps' = Append(steps, "extract")
       ELSE /\ pc' = "failed"
            /\ error' = r.err
            /\ UNCHANGED <<schema_names, fields, column_dtypes, datetime_columns, steps>>
    /\ UNCHANGED <<arg, ret, schemaFile, dataFile, value_labels, df, output>>

\* value_labels = build_value_labels(fields)
BuildLabels ==
    /\ pc = "labels"
    /\ LET r == build_value_labels(fields) IN
       IF r.ok
       THEN /\ value_labels' = r.val
            /\ pc' = "load"
            /\ error' = error
            /\ steps' = Append(steps, "labels")
       ELSE /\ pc' = "failed"
            /\ error' = r.err
            /\ UNCHANGED <<value_labels, steps>>
    /\ UNCHANGED <<arg, ret, schemaFile, dataFile, schema_names, fields, column_dtypes,
                   datetime_columns, df, output>>

\* LoadResponses with the load errors swallowed: the run goes on with no rows
LoadResponsesSwallowingErrors ==
    /\ pc = "load"
    /\ LET r == load_responses_to_df(dataFile, column_dtypes, datetime_columns) IN
       df' = IF r.ok THEN r.val ELSE <<>>
    /\ pc' = "reorder"
    /\ steps' = Append(steps, "load")
    /\ UNCHANGED <<arg, ret, schemaFile, dataFile, schema_names, fields, column_dtypes,
                   datetime_columns, value_labels, error, output>>

\* df = load_responses_to_df(responses_data_path, column_dtypes, datetime_columns)
LoadResponses ==
    /\ pc = "load"
    /\ LET r == load_responses_to_df(dataFile, column_dtypes, datetime_columns) IN
       IF r.ok
       THEN /\ df' = r.val
            /\ pc' = "reorder"
            /\ error' = error
            /\ steps' = Append(steps, "load")
       ELSE /\ pc' = "failed"
            /\ error' = r.err
            /\ UNCHANGED <<df, steps>>
    /\ UNCHANGED <<arg, ret, schemaFile, dataFile, schema_names, fields, column_dtypes,
                   datetime_columns, value_labels, output>>

\* schema_order = [...]; if schema_order: df = df[schema_order]
\* (the prints that follow read df and change nothing)
EnforceOrder ==
    /\ pc = "reorder"
    /\ LET schema_order == SchemaOrder(schema_names, df, 1) IN
       df' = IF schema_order # <<>> THEN SelectColumns(df, schema_order) ELSE df
    /\ pc' = "export"
    /\ steps' = Append(steps, "reorder")
    /\ UNCHANGED <<arg, ret, schemaFile, dataFile, schema_names, fields, column_dtypes,
                   datetime_columns, value_labels, error, output>>

\* pyreadstat.write_sav(df, sav_output_path, variable_value_labels=value_labels)
WriteSav ==
    /\ pc = "export"
    /\ output' = Append(output, [df |-> df, value_labels |-> value_labels])
    /\ pc' = "done"
    /\ steps' = Append(steps, "export")
    /\ UNCHANGED <<arg, ret, schemaFile, dataFile, schema_names, fields, column_dtypes,
                   datetime_columns, value_labels, df, error>>

\* the state of main()'s locals before the first statement
MainLocalsInit ==
    /\ schema_names = <<>>
    /\ fields = JList(<<>>)
    /\ column_dtypes = <<>>
    /\ datetime_columns = <<>>
    /\ value_labels = <<>>
    /\ df = <<>>
    /\ error = NoError
    /\ output = <<>>
    /\ steps = <<>>

-----------------------------------------------------------------------------
(* Inputs *)

MaxEntries == 2     \* schema entries (keys + fields) per document
MaxFields == 2      \* field definitions per build_value_labels call
MaxOptions == 2     \* options per field
MaxRows == 2        \* response records per document

SeqsUpTo(S, n) == UNION {[1..k -> S] : k \in 0..n}

c_respid == <<"r","e","s","p","i","d">>
c_status == <<"s","t","a","t","u","s">>
c_start == <<"s","t","a","r","t">>
c_extra == <<"e","x","t","r","a">>
code_complete == <<"c","o","m","p","l","e","t","e">>
code_incomplete == <<"i","n","c">>
text_Complete == <<"C","o","m","p","l","e","t","e">>
text_Incomplete == <<"I","n","c">>
lang_en == <<"e","n">>
not_a_number == <<"n","o","t","-","a","-","n","u","m","b","e","r">>
year_2023 == <<"2","0","2","3">>
not_a_date == <<"s","o","o","n">>

UpperChar(c) ==
    IF \E i \in DOMAIN LowerAlpha : LowerAlpha[i] = c
    THEN UpperAlpha[CHOOSE i \in DOMAIN LowerAlpha : LowerAlpha[i] = c]
    ELSE c
CaseVariants(w) ==
    {[i \in DOMAIN w |-> IF i \in U THEN UpperChar(w[i]) ELSE w[i]] : U \in SUBSET DOMAIN w}

\* fieldType arguments: every letter case of the three known words, near misses,
\* the empty string and None
FieldTypeInputs ==
    {JNull, JStr(<<>>)} \cup
    {JStr(w) : w \in CaseVariants(s_numeric) \cup CaseVariants(s_datetime)
                     \cup CaseVariants(s_text) \cup
                     {s_singleChoice, s_singlechoice,
                      <<"n","u","m","e","r","i">>, <<"n","u","m","e","r","i","c","s">>,
                      <<" ","n","u","m","e","r","i","c">>, <<"d","a","t","e">>,
                      <<"d","a","t","e","-","t","i","m","e">>, <<"I","n","t","6","4">>,
                      <<"u","n","k","n","o","w","n">>}}

\* key/field entries, well formed and malformed
SchemaEntryShapes ==
    { JObj([name |-> JStr(c_respid), fieldType |-> JStr(s_numeric)]),
      JObj([name |-> JStr(c_respid), fieldType |-> JStr(<<"d","a","t","e","T","i","m","e">>)]),
      JObj([name |-> JStr(c_status), fieldType |-> JStr(<<"N","U","M","E","R","I","C">>)]),
      JObj([name |-> JStr(c_status), fieldType |-> JStr(s_singleChoice)]),
      JObj([name |-> JStr(c_respid)]),
      JObj([name |-> JStr(c_status), fieldType |-> JNull]),
      JObj([name |-> JStr(c_status), fieldType |-> JStr(<<>>)]),
      JObj([name |-> JStr(c_respid), fieldType |-> JNum(5)]),
      JObj([fieldType |-> JStr(s_numeric)]),
      JObj([name |-> JStr(<<>>), fieldType |-> JStr(s_datetime)]),
      JObj([name |-> JNum(7), fieldType |-> JStr(s_text)]),
      JObj([name |-> JList(<<JStr(c_start)>>), fieldType |-> JStr(s_numeric)]),
      JStr(c_respid) }

SchemaDoc(schema) == JObj([data |-> JObj([schema |-> JObj(schema)])])

\* documents without an object at data.schema
MalformedRoots ==
    { JNull, JList(<<>>), JNum(5),
      JObj([meta |-> JNum(1)]),
      JObj([data |-> JNull]),
      JObj([data |-> JNum(5)]),
      JObj([data |-> JList(<<>>)]),
      JObj([data |-> JObj([meta |-> JNum(1)])]),
      JObj([data |-> JObj([schema |-> JNull])]),
      JObj([data |-> JObj([schema |-> JList(<<>>)])]) }

\* documents with keys and fields lists of at most n entries in all
SchemaDocsCore(E, n) ==
    UNION {{SchemaDoc([keys |-> JList(ks), fields |-> JList(fs)]) :
                fs \in SeqsUpTo(E, n - Len(ks))} : ks \in SeqsUpTo(E, n)}

\* documents whose keys or fields are missing or null
SchemaDocsOptional(E, n) ==
    {SchemaDoc([fields |-> JList(fs)]) : fs \in SeqsUpTo(E, n)} \cup
    {SchemaDoc([keys |-> JNull, fields |-> JList(fs)]) : fs \in SeqsUpTo(E, n)} \cup
    {SchemaDoc([keys |-> JList(ks)]) : ks \in SeqsUpTo(E, n)} \cup
    {SchemaDoc([keys |-> JList(ks), fields |-> JNull]) : ks \in SeqsUpTo(E, n)} \cup
    {SchemaDoc([name |-> JStr(<<"r","e","s","p","o","n","s","e">>)])}

SchemaInputs ==
    MalformedRoots \cup SchemaDocsCore(SchemaEntryShapes, MaxEntries)
                   \cup SchemaDocsOptional(SchemaEntryShapes, MaxEntries)

opt_complete ==
    JObj([code |-> JStr(code_complete),
          texts |-> JList(<<JObj([language |-> JStr(lang_en), text |-> JStr(text_Complete)])>>)])
opt_numeric_code == JObj([code |-> JNum(7)])
opt_complete_again ==
    JObj([code |-> JStr(code_complete),
          texts |-> JList(<<JObj([text |-> JStr(text_Incomplete)]),
                            JObj([text |-> JStr(text_Complete)])>>)])
opt_no_text ==
    JObj([code |-> JStr(code_incomplete),
          texts |-> JList(<<JObj([language |-> JStr(lang_en)])>>)])

OptionLists ==
    SeqsUpTo({opt_complete, opt_numeric_code, opt_complete_again}, MaxOptions)
    \cup {<<opt_no_text>>, <<opt_no_text, opt_complete>>}

LabelFieldShapes ==
    {JObj([name |-> JStr(c_status), fieldType |-> JStr(s_singleChoice), options |-> JList(os)]) :
        os \in OptionLists} \cup
    { JObj([name |-> JStr(c_status), fieldType |-> JStr(s_singleChoice)]),
      JObj([name |-> JStr(c_status), fieldType |-> JStr(s_singleChoice), options |-> JNull]),
      JObj([name |-> JStr(c_respid), fieldType |-> JStr(s_singleChoice),
            options |-> JList(<<opt_numeric_code>>)]),
      JObj([name |-> JStr(c_status), fieldType |-> JStr(s_numeric),
            options |-> JList(<<opt_complete>>)]),
      JObj([name |-> JStr(c_respid), fieldType |-> JStr(s_text),
            options |-> JList(<<opt_complete>>)]),
      JObj([name |-> JStr(c_respid), fieldType |-> JStr(s_singlechoice),
            options |-> JList(<<opt_complete>>)]),
      JObj([name |-> JStr(<<>>), fieldType |-> JStr(s_singleChoice),
            options |-> JList(<<opt_complete>>)]),
      JObj([fieldType |-> JStr(s_singleChoice), options |-> JList(<<opt_complete>>)]),
      JObj([name |-> JStr(c_respid), options |-> JList(<<opt_complete>>)]),
      JStr(c_status) }

LabelInputs == {JList(fs) : fs \in SeqsUpTo(LabelFieldShapes, MaxFields)}

\* a record from the cells it gives, absent cells left out
Pairs(col, cells) == {<<>>} \cup {<<<<JStr(col), x>>>> : x \in cells}
LoadRows ==
    {JRec(a \o b \o c) :
        a \in Pairs(c_respid, {JNum(10), JNum(20), JStr(not_a_number), JNull}),
        b \in Pairs(c_status, {JStr(code_complete)}),
        c \in Pairs(c_start, {JStr(year_2023), JStr(not_a_date)})} \cup
    { JRec(<<<<JStr(c_status), JStr(code_complete)>>, <<JStr(c_respid), JNum(10)>>>>),
      JRec(<<<<JStr(c_extra), JNum(1)>>, <<JStr(c_respid), JStr(not_a_number)>>>>) }

\* (column_dtypes, datetime_columns) as a caller may pass them
LoadPlans ==
    { <<<< <<JStr(c_respid), Int64>>, <<JStr(c_status), StringDtype>> >>, <<JStr(c_start)>>>>,
      <<<< <<JStr(c_respid), StringDtype>> >>, <<>>>>,
      <<<< <<JStr(c_respid), Int64>> >>, <<JStr(c_respid)>>>>,
      <<<< <<JStr(c_status), Int64>> >>, <<JStr(c_start)>>>> }

LoadFiles ==
    {NoFile, JNull, JNum(5), JObj([data |-> JList(<<>>)])} \cup
    {JList(rows) : rows \in SeqsUpTo(LoadRows, MaxRows)}

LoadInputs == {[file |-> f, dtypes |-> p[1], dts |-> p[2]] : f \in LoadFiles, p \in LoadPlans}

MainEntryShapes ==
    { JObj([name |-> JStr(c_respid), fieldType |-> JStr(s_numeric)]),
      JObj([name |-> JStr(c_status), fieldType |-> JStr(s_singleChoice),
            options |-> JList(<<opt_complete>>)]),
      JObj([name |-> JStr(c_start), fieldType |-> JStr(<<"d","a","t","e","T","i","m","e">>)]) }

MainSchemaFiles ==
    {NoFile, JList(<<>>), JObj([data |-> JObj([meta |-> JNum(1)])]),
     SchemaDoc([fields |-> JList(<<JObj([name |-> JStr(c_status),
                                        fieldType |-> JStr(s_singleChoice),
                                        options |-> JList(<<JStr(code_complete)>>)])>>)])}
    \cup SchemaDocsCore(MainEntryShapes, MaxEntries)

MainRows ==
    { JRec(<<<<JStr(c_respid), JNum(10)>>, <<JStr(c_status), JStr(code_complete)>>>>),
      JRec(<<<<JStr(c_status), JStr(code_complete)>>, <<JStr(c_respid), JStr(not_a_number)>>>>),
      JRec(<<<<JStr(c_extra), JNum(1)>>>>),
      JRec(<<<<JStr(c_start), JStr(year_2023)>>, <<JStr(c_respid), JNum(20)>>>>),
      JRec(<<<<JStr(c_extra), JNum(1)>>, <<JStr(c_respid), JNum(10)>>>>) }

MainDataFiles ==
    {NoFile, JObj([data |-> JList(<<>>)])} \cup
    {JList(rows) : rows \in SeqsUpTo(MainRows, MaxRows)}

-----------------------------------------------------------------------------
(* Specifications *)

\* main() on a schema file and a data file
Init ==
    /\ schemaFile \in MainSchemaFiles
    /\ dataFile \in MainDataFiles
    /\ pc = "start"
    /\ arg = JNull
    /\ ret = NotCalled
    /\ MainLocalsInit

Next ==
    \/ CheckSchemaExists
    \/ ExtractSchema
    \/ BuildLabels
    \/ LoadResponses
    \/ EnforceOrder
    \/ WriteSav

Spec == Init /\ [][Next]_vars

\* a single call of one function on arg
CallInit(inputs) ==
    /\ arg \in inputs
    /\ ret = NotCalled
    /\ pc = "call"
    /\ schemaFile = NoFile
    /\ dataFile = NoFile
    /\ MainLocalsInit

Return(r) ==
    /\ pc = "call"
    /\ ret' = r
    /\ pc' = "returned"
    /\ UNCHANGED <<arg, schemaFile, dataFile, schema_names, fields, column_dtypes,
                   datetime_columns, value_labels, df, error, output, steps>>

CallMapFieldtype == Return(map_fieldtype_to_dtype(arg))
InitTypes == CallInit(FieldTypeInputs)
SpecTypes == InitTypes /\ [][CallMapFieldtype]_vars

CallExtractSchemaInfo == Return(extract_schema_info(arg))
InitSchema == CallInit(SchemaInputs)
SpecSchema == InitSchema /\ [][CallExtractSchemaInfo]_vars

CallBuildValueLabels == Return(build_value_labels(arg))
InitLabels == CallInit(LabelInputs)
SpecLabels == InitLabels /\ [][CallBuildValueLabels]_vars

CallLoadResponses == Return(load_responses_to_df(arg.file, arg.dtypes, arg.dts))
InitLoad == CallInit(LoadInputs)
SpecLoad == InitLoad /\ [][CallLoadResponses]_vars

-----------------------------------------------------------------------------
(* Properties *)

InSeq(x, sq) == \E i \in DOMAIN sq : sq[i] = x
SeqSet(sq) == {sq[i] : i \in DOMAIN sq}
NoDuplicates(sq) == \A i, j \in DOMAIN sq : sq[i] = sq[j] => i = j

\* two strings equal up to letter case
SameLetter(c, d) ==
    c = d \/ \E k \in DOMAIN UpperAlpha : {c, d} = {UpperAlpha[k], LowerAlpha[k]}
CaseInsensitiveEqual(s, w) ==
    Len(s) = Len(w) /\ \A i \in DOMAIN s : SameLetter(s[i], w[i])
IsWord(x, w) == x.t = "str" /\ CaseInsensitiveEqual(x.s, w)

\* C4: map_fieldtype_to_dtype returns Int64 exactly for the inputs that equal
\* "numeric" up to letter case, datetime exactly for those that equal "datetime"
\* up to letter case, and string for every other string, the empty string and None.
C4_FieldTypeMapping ==
    pc = "returned" =>
        /\ ret.ok
        /\ ret.val = Int64 <=> IsWord(arg, s_numeric)
        /\ ret.val = Datetime64 <=> IsWord(arg, s_datetime)
        /\ (~IsWord(arg, s_numeric) /\ ~IsWord(arg, s_datetime)) => ret.val = StringDtype

C4_Witness ==
    /\ pc = "returned"
    /\ IsWord(arg, s_numeric)
    /\ arg.s # s_numeric
    /\ ret = Ok(Int64)

\* the document has an object at data.schema
HasSchemaObject(j) ==
    /\ j.t = "obj"
    /\ "data" \in DOMAIN j.d
    /\ j.d.data.t = "obj"
    /\ "schema" \in DOMAIN j.d.data.d
    /\ j.d.data.d.schema.t = "obj"

\* the entries a document declares: keys in document order, then fields
ListAt(o, k) == IF k \in DOMAIN o.d /\ o.d[k].t = "list" THEN o.d[k].items ELSE <<>>
DeclaredEntries(j) == ListAt(j.d.data.d.schema, "keys") \o ListAt(j.d.data.d.schema, "fields")
IsNamed(e) == e.t = "obj" /\ "name" \in DOMAIN e.d /\ Truthy(e.d.name)
DeclaresDatetime(e) ==
    IsNamed(e) /\ "fieldType" \in DOMAIN e.d /\ IsWord(e.d.fieldType, s_datetime)
DeclaresOther(e) == IsNamed(e) /\ ~DeclaresDatetime(e)

\* C5 as stated: every name declared with a datetime fieldType is in the datetime
\* list and is no key of the type map, so the two are disjoint, whatever else the
\* schema declares under the same name.
C5_DatetimeNeverTyped ==
    (pc = "returned" /\ ret.ok) =>
        /\ \A i \in DOMAIN DeclaredEntries(arg) :
              DeclaresDatetime(DeclaredEntries(arg)[i]) =>
                  /\ InSeq(DeclaredEntries(arg)[i].d.name, ret.val.datetime_columns)
                  /\ ~DictHas(ret.val.column_dtypes, DeclaredEntries(arg)[i].d.name)
        /\ SeqSet(ret.val.datetime_columns) \cap DictKeys(ret.val.column_dtypes) = {}

\* C5 amended: every name declared with a datetime fieldType is in the datetime
\* list, and it is a key of the type map exactly when another entry declares the
\* same name with a non-datetime type.
C5_DatetimeTypedOnlyByOtherEntry ==
    (pc = "returned" /\ ret.ok) =>
        \A i \in DOMAIN DeclaredEntries(arg) :
            LET e == DeclaredEntries(arg)[i] IN
            DeclaresDatetime(e) =>
                /\ InSeq(e.d.name, ret.val.datetime_columns)
                /\ DictHas(ret.val.column_dtypes, e.d.name) <=>
                       \E k \in DOMAIN DeclaredEntries(arg) :
                           /\ DeclaresOther(DeclaredEntries(arg)[k])
                           /\ DeclaredEntries(arg)[k].d.name = e.d.name

C5_Witness ==
    /\ pc = "returned"
    /\ ret.ok
    /\ \E i \in DOMAIN DeclaredEntries(arg) :
          /\ DeclaresDatetime(DeclaredEntries(arg)[i])
          /\ ~DictHas(ret.val.column_dtypes, DeclaredEntries(arg)[i].d.name)
    /\ ret.val.column_dtypes # <<>>

\* C6: a document without an object at data.schema makes extract_schema_info
\* fail with the schema-format ValueError and with no other error.
C6_MalformedRootIsSchemaFormatError ==
    (pc = "returned" /\ ~HasSchemaObject(arg)) =>
        ret = Raise("ValueError: Schema JSON must contain 'data.schema' as an object.")

\* C9: with an object at data.schema, extract_schema_info raises nothing,
\* whatever the shape of the key and field entries.
C9_NoErrorOnMalformedEntries ==
    (pc = "returned" /\ HasSchemaObject(arg)) => ret.ok

\* a singleChoice field with a non-empty name and a non-empty options list
IsChoiceField(f) ==
    /\ f.t = "obj"
    /\ "fieldType" \in DOMAIN f.d
    /\ f.d.fieldType = JStr(s_singleChoice)
    /\ IsNamed(f)
    /\ "options" \in DOMAIN f.d
    /\ f.d.options.t = "list"
    /\ f.d.options.items # <<>>

\* a field whose fieldType is numeric or text
IsPlainField(f) ==
    /\ f.t = "obj"
    /\ "fieldType" \in DOMAIN f.d
    /\ f.d.fieldType \in {JStr(s_numeric), JStr(s_text)}
    /\ IsNamed(f)

\* s is the string form of the code c
IsStringFormOf(s, c) ==
    CASE c.t = "str" -> s = c.s
      [] c.t = "num" -> /\ Len(s) > 0
                        /\ \A i \in DOMAIN s : IsDigit(s[i])
                        /\ (Len(s) > 1 => s[1] # "0")
                        /\ ParseInt(s) = c.n
      [] OTHER -> s = <<"N","o","n","e">>

HasText(o) ==
    /\ "texts" \in DOMAIN o.d
    /\ o.d.texts.t = "list"
    /\ o.d.texts.items # <<>>
    /\ "text" \in DOMAIN o.d.texts.items[1].d

\* label is what the option o gives its code: its first text, else the string
\* form of the code
IsLabelOf(label, o) ==
    IF HasText(o) THEN label = o.d.texts.items[1].d.text
    ELSE label.t = "str" /\ IsStringFormOf(label.s, o.d.code)

FirstIndex(os, c) == CHOOSE i \in DOMAIN os : os[i].d.code = c /\ \A j \in 1..(i - 1) : os[j].d.code # c
LastIndex(os, c) == CHOOSE i \in DOMAIN os : os[i].d.code = c /\ \A j \in (i + 1)..Len(os) : os[j].d.code # c

\* the lookup L is {c1: t1, ...} for the options os, in option order: one entry
\* per code, ordered as the codes first occur, a repeated code keeping its last text
IsLookupOf(L, os) ==
    /\ NoDuplicates([i \in DOMAIN L |-> L[i][1]])
    /\ DictKeys(L) = {os[i].d.code : i \in DOMAIN os}
    /\ \A p, q \in DOMAIN L : p < q => FirstIndex(os, L[p][1]) < FirstIndex(os, L[q][1])
    /\ \A p \in DOMAIN L : IsLabelOf(L[p][2], os[LastIndex(os, L[p][1])])

\* C3 as stated: every singleChoice field with a name and options is mapped to
\* exactly its own lookup, and the name of a numeric or text field is never a key.
C3_EveryChoiceFieldLabelled ==
    pc = "returned" =>
        /\ ret.ok
        /\ \A i \in DOMAIN arg.items :
              IsChoiceField(arg.items[i]) =>
                  /\ DictHas(ret.val, arg.items[i].d.name)
                  /\ IsLookupOf(DictGet(ret.val, arg.items[i].d.name), arg.items[i].d.options.items)
        /\ \A i \in DOMAIN arg.items :
              IsPlainField(arg.items[i]) => ~DictHas(ret.val, arg.items[i].d.name)

\* C3 amended: the result's keys are exactly the names of the singleChoice fields
\* with a name and options, each mapped to the lookup of the last such field of
\* that name; so the name of a numeric or text field is a key only when such a
\* singleChoice field shares it.
C3_LastChoiceFieldLabelled ==
    pc = "returned" =>
        /\ ret.ok
        /\ DictKeys(ret.val) = {arg.items[i].d.name : i \in {k \in DOMAIN arg.items : IsChoiceField(arg.items[k])}}
        /\ NoDuplicates([i \in DOMAIN ret.val |-> ret.val[i][1]])
        /\ \A i \in DOMAIN arg.items :
              (/\ IsChoiceField(arg.items[i])
               /\ \A j \in (i + 1)..Len(arg.items) :
                     IsChoiceField(arg.items[j]) => arg.items[j].d.name # arg.items[i].d.name)
              => IsLookupOf(DictGet(ret.val, arg.items[i].d.name), arg.items[i].d.options.items)

C3_Witness ==
    /\ pc = "returned"
    /\ ret.ok
    /\ \E i, j \in DOMAIN arg.items :
          /\ IsChoiceField(arg.items[i])
          /\ Len(arg.items[i].d.options.items) = 2
          /\ ~HasText(arg.items[i].d.options.items[1])
          /\ HasText(arg.items[i].d.options.items[2])
          /\ Len(DictGet(ret.val, arg.items[i].d.name)) = 2
          /\ IsPlainField(arg.items[j])
          /\ "options" \in DOMAIN arg.items[j].d
          /\ ~DictHas(ret.val, arg.items[j].d.name)

\* the cells of the result's column col, and of the records as loaded
ResultCells(frame, col) == frame[CHOOSE c \in DOMAIN frame : frame[c].name = col].cells
GivenCell(file, r, col) ==
    IF \E j \in DOMAIN file.items[r].pairs :
          file.items[r].pairs[j][1] = col /\ file.items[r].pairs[j][2].t # "null"
    THEN file.items[r].pairs[CHOOSE j \in DOMAIN file.items[r].pairs : file.items[r].pairs[j][1] = col][2]
    ELSE NaN
IsMissing(cell) == cell.t \in {"nan", "NA", "NaT"}

\* col is typed Int64 and some record gives it a string that is no integer
HasUncastableCell(a, col) ==
    /\ a.file.t = "list"
    /\ \E i \in DOMAIN a.dtypes : a.dtypes[i] = <<col, Int64>>
    /\ \E r \in DOMAIN a.file.items : GivenCell(a.file, r, col).t = "str"

LoadColumns == {JStr(c_respid), JStr(c_status), JStr(c_start), JStr(c_extra)}

C10_LoadErrors ==
    pc = "returned" =>
        /\ arg.file = NoFile => ret = Raise("FileNotFoundError")
        /\ (arg.file # NoFile /\ arg.file.t # "list") =>
              ret = Raise("ValueError: Expected responses_data.json to contain a JSON array.")
        /\ arg.file.t = "list" => ret.ok
        /\ ~ret.ok => DOMAIN ret = {"ok", "err"}

C10_Witness ==
    /\ pc = "returned"
    /\ arg.file.t = "obj"
    /\ ret = Raise("ValueError: Expected responses_data.json to contain a JSON array.")

\* the schema name sequence: keys in document order, then fields
DeclaredNames(j) ==
    LET named == SelectSeq(DeclaredEntries(j), IsNamed)
    IN  [i \in DOMAIN named |-> named[i].d.name]

\* the names that occur as a key of at least one record
DataKeys(file) ==
    UNION {{file.items[r].pairs[k][1] : k \in DOMAIN file.items[r].pairs} : r \in DOMAIN file.items}

\* the schema name sequence filtered to the names present in the data
FilteredSchemaNames ==
    LET present(n) == n \in DataKeys(dataFile)
    IN  SelectSeq(DeclaredNames(schemaFile), present)

\* C2 as stated: the columns of the table handed to the exporter are the schema
\* name sequence filtered to the names present in the data.
C2_ColumnsAreFilteredSchemaNames ==
    output # <<>> => Columns(output[1].df) = FilteredSchemaNames

\* C2 amended: when at least one schema name is present in the data, the columns
\* of the table handed to the exporter are the filtered schema name sequence;
\* when none is, the table keeps every column of the data, each once.
C2_ColumnsFilteredUnlessNonePresent ==
    output # <<>> =>
        IF FilteredSchemaNames # <<>>
        THEN Columns(output[1].df) = FilteredSchemaNames
        ELSE /\ SeqSet(Columns(output[1].df)) = DataKeys(dataFile)
             /\ NoDuplicates(Columns(output[1].df))

C2_Witness ==
    /\ output # <<>>
    /\ Len(FilteredSchemaNames) = 2
    /\ FilteredSchemaNames[1] # FilteredSchemaNames[2]
    /\ Columns(output[1].df) = FilteredSchemaNames
    /\ \E k \in DataKeys(dataFile) : ~InSeq(k, DeclaredNames(schemaFile))
    /\ dataFile.items[1].pairs[1][1] = FilteredSchemaNames[2]

AllSteps == <<"schema_exists", "extract", "labels", "load", "reorder", "export">>
IsPrefix(p, q) == Len(p) <= Len(q) /\ \A i \in DOMAIN p : p[i] = q[i]
Terminated == pc \in {"done", "failed"}

\* C7: the export write happens at most once and only after the schema check,
\* extraction, label building, loading and reordering completed without error,
\* in that order; a missing schema file, a malformed schema root, a missing
\* response file or response content that is no array ends the run at that step
\* with nothing written.
C7_ExportOnlyAfterAllSteps ==
    /\ Len(output) <= 1
    /\ IsPrefix(steps, AllSteps)
    /\ output # <<>> => (steps = AllSteps /\ error = NoError /\ pc = "done")
    /\ pc = "failed" => (output = <<>> /\ error # NoError)
    /\ (Terminated /\ schemaFile = NoFile) =>
          (pc = "failed" /\ steps = <<>> /\ output = <<>>)
    /\ (Terminated /\ schemaFile # NoFile /\ ~HasSchemaObject(schemaFile)) =>
          (pc = "failed" /\ steps = <<"schema_exists">> /\ output = <<>>)
    /\ (Terminated /\ (dataFile = NoFile \/ dataFile.t # "list")) =>
          (pc = "failed" /\ IsPrefix(steps, <<"schema_exists", "extract", "labels">>)
                         /\ output = <<>>)

C7_Witness ==
    /\ pc = "done"
    /\ Len(output) = 1
    /\ steps = AllSteps
    /\ error = NoError

\* C8 as stated: every key of the label table passed to the exporter is a column
\* of the table passed to it.
C8_LabelKeysAreColumns ==
    output # <<>> =>
        DictKeys(output[1].value_labels) \subseteq SeqSet(Columns(output[1].df))

\* C8 amended: every key of the label table passed to the exporter is a schema
\* field typed in column_dtypes, and it is a column of the exported table exactly
\* when it occurs as a key of at least one record.
C8_LabelKeysAreTypedSchemaFields ==
    output # <<>> =>
        /\ DictKeys(output[1].value_labels) \subseteq DictKeys(column_dtypes)
        /\ DictKeys(output[1].value_labels) \subseteq SeqSet(DeclaredNames(schemaFile))
        /\ \A k \in DictKeys(output[1].value_labels) :
              InSeq(k, Columns(output[1].df)) <=> k \in DataKeys(dataFile)

C8_Witness ==
    /\ output # <<>>
    /\ output[1].value_labels # <<>>
    /\ DictKeys(output[1].value_labels) \subseteq SeqSet(Columns(output[1].df))
    /\ Len(output[1].df) = 2

====
